---------------------------- MODULE Spec2Model ----------------------------
(***************************************************************************)
(* The architecture-diagram generator of CLI_Chat                          *)
(* (generate_architecture.py): analyze_codebase, get_module_description,   *)
(* generate_mermaid_diagram and update_architecture_diagram.               *)
(*                                                                         *)
(* Python strings are sequences of one-character strings, so that strip,   *)
(* replace, split, slicing and concatenation are computed as Python        *)
(* computes them.  A dict is the sequence of its entries in insertion      *)
(* order.  A syntax tree is the sequence of its nodes below the Module     *)
(* root, in source order, each with its depth under the root.              *)
(***************************************************************************)
EXTENDS Integers, Sequences, FiniteSets

VARIABLES
  fs,         \* the directories: [exists, entries], an entry is [name, status]
  corpus,     \* which family of file contents open()/read() and ast.parse serve
  out_file,   \* architecture_diagram.md: [exists, data]
  pc,         \* position of the running process
  caller,     \* who called analyze_codebase: "main", "lib" or "none"
  src_dir,    \* analyze_codebase: the argument
  pending,    \* analyze_codebase: files of the glob not yet iterated
  py_file,    \* analyze_codebase: the loop variable (a file name)
  content,    \* analyze_codebase: the text last read
  tree,       \* analyze_codebase: the syntax tree last parsed
  modules,    \* the module mapping (entries in insertion order)
  diagram_content, \* update_architecture_diagram: the generated diagram
  idx,        \* update_architecture_diagram: summary lines printed so far
  opened,     \* paths the process has opened for reading, in order
  stdout      \* lines the process has printed, in order

vars == <<fs, corpus, out_file, pc, caller, src_dir, pending, py_file, content,
          tree, modules, diagram_content, idx, opened, stdout>>

----------------------------------------------------------------------------
(* Program constants *)

\* desc[:40] + "..." if len(desc) > 40
DESC_LIMIT == 40
\* content.split('\n')[:5]
HEAD_LINES == 5
\* functions[:3]
FUNC_LIMIT == 3
\* classes[:2]
CLASS_LIMIT == 2

----------------------------------------------------------------------------
(* Bounds of the model *)

\* files in all directories together
MaxFiles == 2
\* nodes of a syntax tree below the Module root
MaxNodes == 4
\* length of a run of quote characters at either end of a line
MaxQuoteRun == 3

----------------------------------------------------------------------------
(* Python str and list operations *)

Min(a, b) == IF a < b THEN a ELSE b

\* s[:n]
Take(s, n) == SubSeq(s, 1, Min(n, Len(s)))

\* s[n:]
Drop(s, n) == SubSeq(s, n + 1, Len(s))

\* n copies of the character c
Rep(c, n) == [i \in 1..n |-> c]

\* characters str.strip() removes
Whitespace == {" ", "\t", "\n", "\r", "\f"}

RECURSIVE lstrip(_)
lstrip(s) ==
  IF s # <<>> /\ Head(s) \in Whitespace THEN lstrip(Tail(s)) ELSE s

RECURSIVE rstrip(_)
rstrip(s) ==
  IF s # <<>> /\ s[Len(s)] \in Whitespace THEN rstrip(Take(s, Len(s) - 1)) ELSE s

\* str.strip()
strip(s) == rstrip(lstrip(s))

\* s.startswith(p)
startswith(s, p) == Len(s) >= Len(p) /\ Take(s, Len(p)) = p

\* s.endswith(p)
endswith(s, p) == Len(s) >= Len(p) /\ Drop(s, Len(s) - Len(p)) = p

\* p in s
Contains(s, p) == \E i \in 0..(Len(s) - Len(p)) : SubSeq(s, i + 1, i + Len(p)) = p

\* s.replace(p, ''): the non-overlapping occurrences of p, left to right
RECURSIVE remove(_, _)
remove(s, p) ==
  IF Len(s) < Len(p) THEN s
  ELSE IF startswith(s, p) THEN remove(Drop(s, Len(p)), p)
  ELSE <<Head(s)>> \o remove(Tail(s), p)

\* s.split('\n')
RECURSIVE split(_)
split(s) ==
  IF \A i \in 1..Len(s) : s[i] # "\n" THEN <<s>>
  ELSE LET i == CHOOSE k \in 1..Len(s) : s[k] = "\n" /\ \A j \in 1..(k - 1) : s[j] # "\n"
       IN <<Take(s, i - 1)>> \o split(Drop(s, i))

\* '\n'.join(lines)
RECURSIVE join(_)
join(lines) ==
  IF lines = <<>> THEN <<>>
  ELSE IF Len(lines) = 1 THEN lines[1]
  ELSE lines[1] \o <<"\n">> \o join(Tail(lines))

TRIPLE_DOUBLE == <<"\"", "\"", "\"">>
TRIPLE_SINGLE == <<"'", "'", "'">>
ELLIPSIS == <<".", ".", ".">>
MODULE_SUFFIX == <<" ", "m", "o", "d", "u", "l", "e">>
SRC_PREFIX == <<"s", "r", "c", "/">>
PY_SUFFIX == <<".", "p", "y">>
DUNDER == <<"_", "_">>

----------------------------------------------------------------------------
(* get_module_description *)

\* the fallback descriptions, key then value
descriptions ==
  <<
    \* 'cli': 'CLI with argument parsing'
    <<<<"c", "l", "i">>,
      <<"C", "L", "I", " ", "w", "i", "t", "h", " ", "a", "r", "g", "u", "m", "e", "n", "t",
        " ", "p", "a", "r", "s", "i", "n", "g">>>>,
    \* 'config': 'Configuration & environment'
    <<<<"c", "o", "n", "f", "i", "g">>,
      <<"C", "o", "n", "f", "i", "g", "u", "r", "a", "t", "i", "o", "n", " ", "&", " ", "e",
        "n", "v", "i", "r", "o", "n", "m", "e", "n", "t">>>>,
    \* 'data_loader': 'Data ingestion & parsing'
    <<<<"d", "a", "t", "a", "_", "l", "o", "a", "d", "e", "r">>,
      <<"D", "a", "t", "a", " ", "i", "n", "g", "e", "s", "t", "i", "o", "n", " ", "&", " ",
        "p", "a", "r", "s", "i", "n", "g">>>>,
    \* 'index_manager': 'Vector indexing & storage'
    <<<<"i", "n", "d", "e", "x", "_", "m", "a", "n", "a", "g", "e", "r">>,
      <<"V", "e", "c", "t", "o", "r", " ", "i", "n", "d", "e", "x", "i", "n", "g", " ", "&",
        " ", "s", "t", "o", "r", "a", "g", "e">>>>,
    \* 'ageny': 'AI agent & query engines'
    <<<<"a", "g", "e", "n", "y">>,
      <<"A", "I", " ", "a", "g", "e", "n", "t", " ", "&", " ", "q", "u", "e", "r", "y", " ",
        "e", "n", "g", "i", "n", "e", "s">>>>,
    \* 'google_llm_init': 'Google Gemini LLM setup'
    <<<<"g", "o", "o", "g", "l", "e", "_", "l", "l", "m", "_", "i", "n", "i", "t">>,
      <<"G", "o", "o", "g", "l", "e", " ", "G", "e", "m", "i", "n", "i", " ", "L", "L", "M",
        " ", "s", "e", "t", "u", "p">>>>,
    \* 'custom_console': 'Console UI & formatting'
    <<<<"c", "u", "s", "t", "o", "m", "_", "c", "o", "n", "s", "o", "l", "e">>,
      <<"C", "o", "n", "s", "o", "l", "e", " ", "U", "I", " ", "&", " ", "f", "o", "r", "m",
        "a", "t", "t", "i", "n", "g">>>>
  >>

\* a variant that never consults the table
FallbackAlwaysNamed(module_name) == module_name \o MODULE_SUFFIX

\* descriptions.get(module_name, f'{module_name} module')
FallbackDescription(module_name) ==
  IF \E i \in 1..Len(descriptions) : descriptions[i][1] = module_name
  THEN LET i == CHOOSE k \in 1..Len(descriptions) : descriptions[k][1] = module_name
       IN descriptions[i][2]
  ELSE module_name \o MODULE_SUFFIX

\* a variant that keeps the result, ellipsis included, within the limit
ShortenWithin(desc) ==
  IF Len(desc) > DESC_LIMIT THEN Take(desc, DESC_LIMIT - 3) \o ELLIPSIS ELSE desc

\* desc[:40] + "..." if len(desc) > 40 else desc
Shorten(desc) ==
  IF Len(desc) > DESC_LIMIT THEN Take(desc, DESC_LIMIT) \o ELLIPSIS ELSE desc

\* the for loop over the lines, then the fallback
RECURSIVE DescribeLines(_, _)
DescribeLines(lines, module_name) ==
  IF lines = <<>> THEN FallbackDescription(module_name)
  ELSE LET line == strip(Head(lines))
       IN IF Contains(line, TRIPLE_DOUBLE) \/ Contains(line, TRIPLE_SINGLE)
          THEN Shorten(strip(remove(remove(line, TRIPLE_DOUBLE), TRIPLE_SINGLE)))
          ELSE DescribeLines(Tail(lines), module_name)

get_module_description(text, module_name) ==
  DescribeLines(Take(split(text), HEAD_LINES), module_name)

----------------------------------------------------------------------------
(* generate_mermaid_diagram *)

\* three backquotes, which a TLA+ string cannot hold
FENCE == "[fence]"

\* the diagram literal, line by line
diagram ==
  <<
    FENCE \o "mermaid",
    "graph TB",
    "    %% Entry Point",
    "    CLI[\"CLI Entry Point<br/>src/cli.py\"] --> ARG[\"Argument Parser<br/>--load-data | --chat\"]",
    "",
    "    %% Configuration Layer",
    "    CONFIG[\"Configuration<br/>src/config.py\"] --> ENV[\"Environment Variables<br/>.env file<br/>GOOGLE_API_KEY\"]",
    "    CONFIG --> PATHS[\"Path Configuration<br/>DATA_DIR, STORAGE_DIR<br/>YEARS, CHUNK_SIZE\"]",
    "",
    "    %% Data Flow",
    "    ARG --> LOAD{Command Type}",
    "",
    "    %% Load Data Path",
    "    LOAD -->|\"load-data\"| DL[\"Data Loader<br/>src/data_loader.py\"]",
    "    DL --> UREAD[\"UnstructuredReader<br/>HTML Files\"]",
    "    UREAD --> DOCS[\"Document Set<br/>2019-2022 UBER<br/>SEC 10-K Filings\"]",
    "    DOCS --> IM[\"Index Manager<br/>src/index_manager.py\"]",
    "    IM --> EMB[\"Google GenAI<br/>Embeddings\"]",
    "    EMB --> VSI[\"Vector Store Index<br/>Per Year\"]",
    "    VSI --> PERSIST[\"Persist Indices<br/>storage/year/\"]",
    "",
    "    %% Chat Path",
    "    LOAD -->|\"chat\"| LIM[\"Load Indices<br/>src/index_manager.py\"]",
    "    LIM --> LIND[\"Load Persisted<br/>Vector Indices\"]",
    "",
    "    %% Agent Creation",
    "    LIND --> AGENT[\"Agent Creation<br/>src/ageny.py\"]",
    "    AGENT --> TOOLS[\"Create Tools<br/>QueryEngineTool<br/>SubQuestionQueryEngine\"]",
    "",
    "    %% LLM Integration",
    "    AGENT --> GLLM[\"Google LLM Init<br/>src/google_llm_init.py\"]",
    "    GLLM --> GEMINI[\"Google GenAI<br/>gemini-2.5-flash\"]",
    "",
    "    %% System Components",
    "    AGENT --> SP[\"System Prompt<br/>system_prompt.txt\"]",
    "    SP --> FUNC_AGENT[\"FunctionAgent<br/>LlamaIndex\"]",
    "",
    "    %% Chat Interface",
    "    FUNC_AGENT --> CHAT[\"Chat Loop<br/>Interactive Input\"]",
    "    CHAT --> CONSOLE[\"Custom Console<br/>src/custom_console.py\"]",
    "    CONSOLE --> UI[\"User Interface<br/>Colors, Spinners,<br/>Timers, ASCII Art\"]",
    "",
    "    %% External Dependencies",
    "    subgraph \"External Libraries\"",
    "        LLAMA[\"LlamaIndex Core<br/>VectorStoreIndex<br/>QueryEngine<br/>FunctionAgent\"]",
    "        GAI[\"Google GenAI<br/>LLM + Embeddings\"]",
    "        UNST[\"Unstructured.io<br/>Document Reader\"]",
    "        DOTENV[\"python-dotenv<br/>Environment Loading\"]",
    "    end",
    "",
    "    %% Styling",
    "    classDef entry fill:#e1f5fe,stroke:#01579b,stroke-width:2px,color:#01579b",
    "    classDef config fill:#f3e5f5,stroke:#4a148c,stroke-width:2px,color:#4a148c",
    "    classDef data fill:#e8f5e8,stroke:#1b5e20,stroke-width:2px,color:#1b5e20",
    "    classDef ai fill:#fff3e0,stroke:#e65100,stroke-width:2px,color:#e65100",
    "    classDef ui fill:#fce4ec,stroke:#880e4f,stroke-width:2px,color:#880e4f",
    "    classDef external fill:#f5f5f5,stroke:#424242,stroke-width:1px,color:#424242",
    "",
    "    class CLI,ARG entry",
    "    class CONFIG,ENV,PATHS config",
    "    class DL,UREAD,DOCS,IM,VSI,PERSIST,LIM,LIND data",
    "    class AGENT,TOOLS,FUNC_AGENT,GLLM,GEMINI,SP ai",
    "    class CHAT,CONSOLE,UI ui",
    "    class LLAMA,GAI,UNST,DOTENV external",
    "",
    "    %% Flow Labels",
    "    CLI -.->|\"python -m src.cli\"| ARG",
    "    DL -.->|\"Load UBER HTML\"| UREAD",
    "    IM -.->|\"Create Vector Indices\"| VSI",
    "    AGENT -.->|\"Setup Query Tools\"| TOOLS",
    "    GLLM -.->|\"Initialize Gemini\"| GEMINI",
    "    FUNC_AGENT -.->|\"RAG Chat\"| CHAT",
    "    CONSOLE -.->|\"Format Output\"| UI",
    FENCE \o ""
  >>

\* a variant that adds a line per module
DiagramPerModule(mods) == diagram \o [i \in 1..Len(mods) |-> "module"]

generate_mermaid_diagram(mods) == diagram

----------------------------------------------------------------------------
(* pathlib *)

\* Path.stem: the name without its last suffix
stem(name) ==
  LET dots == {i \in 1..Len(name) : name[i] = "."}
  IN IF dots = {} THEN name
     ELSE LET i == CHOOSE k \in dots : \A j \in dots : j <= k
          IN IF i > 1 /\ i < Len(name) THEN Take(name, i - 1) ELSE name

\* src_path / name, as a string
joinpath(dir, name) == dir \o <<"/">> \o name

\* src_path.glob("*.py"): the names; the order of a glob is the file system's
glob_py(dir) == {e.name : e \in {x \in fs[dir].entries : endswith(x.name, PY_SUFFIX)}}

\* the directory entry of a name
Entry(dir, name) == CHOOSE e \in fs[dir].entries : e.name = name

----------------------------------------------------------------------------
(* ast *)

\* the kind of node i; node 0 is the Module root
NodeKind(nodes, i) == IF i = 0 THEN "Module" ELSE nodes[i].kind

NodeDepth(nodes, i) == IF i = 0 THEN 0 ELSE nodes[i].depth

\* the nodes from j on that are directly below a node of depth d
RECURSIVE ChildrenFrom(_, _, _)
ChildrenFrom(nodes, d, j) ==
  IF j > Len(nodes) \/ nodes[j].depth <= d THEN <<>>
  ELSE IF nodes[j].depth = d + 1 THEN <<j>> \o ChildrenFrom(nodes, d, j + 1)
  ELSE ChildrenFrom(nodes, d, j + 1)

\* ast.iter_child_nodes: the nodes directly below node i, in source order
iter_child_nodes(nodes, i) == ChildrenFrom(nodes, NodeDepth(nodes, i), i + 1)

\* ast.walk: todo = deque([node]); popleft, extend with the children, yield
RECURSIVE WalkQueue(_, _)
WalkQueue(nodes, todo) ==
  IF todo = <<>> THEN <<>>
  ELSE <<Head(todo)>> \o WalkQueue(nodes, Tail(todo) \o iter_child_nodes(nodes, Head(todo)))

\* a variant that stops below the root
WalkTopLevel(nodes) == <<0>> \o iter_child_nodes(nodes, 0)

walk(nodes) == WalkQueue(nodes, <<0>>)

\* [node.name for node in ast.walk(tree) if isinstance(node, <kind>)]
NamesOfKind(nodes, kind) ==
  LET IsKind(i) == NodeKind(nodes, i) = kind
      found == SelectSeq(walk(nodes), IsKind)
  IN [k \in 1..Len(found) |-> nodes[found[k]].name]

\* s without its repeated elements
RECURSIVE Distinct(_)
Distinct(s) ==
  IF s = <<>> THEN <<>>
  ELSE LET r == Distinct(Take(s, Len(s) - 1))
       IN IF \E i \in 1..Len(r) : r[i] = s[Len(s)] THEN r ELSE Append(r, s[Len(s)])

\* a variant that drops repeated names
FunctionsFieldDistinct(nodes) == Take(Distinct(NamesOfKind(nodes, "FunctionDef")), FUNC_LIMIT)

\* functions[:3]
FunctionsField(nodes) == Take(NamesOfKind(nodes, "FunctionDef"), FUNC_LIMIT)

\* classes[:2]
ClassesField(nodes) == Take(NamesOfKind(nodes, "ClassDef"), CLASS_LIMIT)

----------------------------------------------------------------------------
(* dict *)

HasKey(d, key) == \E i \in 1..Len(d) : d[i].name = key

\* d[key] = val: a new key is appended, an old key keeps its place
dict_set(d, key, val) ==
  IF HasKey(d, key)
  THEN [i \in 1..Len(d) |-> IF d[i].name = key THEN val ELSE d[i]]
  ELSE Append(d, val)

\* d[key]
dict_get(d, key) == d[CHOOSE i \in 1..Len(d) : d[i].name = key]

\* modules[module_name] = {...}
ModuleInfo(name, description, nodes) ==
  [name |-> stem(name),
   file |-> SRC_PREFIX \o name,
   description |-> description,
   functions |-> FunctionsField(nodes),
   classes |-> ClassesField(nodes)]

----------------------------------------------------------------------------
(* The file system the program runs on *)

SRC == <<"s", "r", "c">>
LIB == <<"l", "i", "b">>
Dirs == {SRC, LIB}

CLI_PY == <<"c", "l", "i", ".", "p", "y">>
UTIL_PY == <<"u", "t", "i", "l", ".", "p", "y">>
INIT_PY == <<"_", "_", "i", "n", "i", "t", "_", "_", ".", "p", "y">>
NOTES_TXT == <<"n", "o", "t", "e", "s", ".", "t", "x", "t">>
\* a name whose stem with " module" is one character over the limit
LONG_PY == Rep("x", DESC_LIMIT + 1 - Len(MODULE_SUFFIX)) \o PY_SUFFIX

Names == {CLI_PY, UTIL_PY, INIT_PY, NOTES_TXT, LONG_PY}

\* what open()/read() and ast.parse do with a file
Statuses == {"ok", "unreadable", "syntax"}

NoDir == [exists |-> FALSE, entries |-> {}]

\* the listings of at most n files: no two entries share a name
RECURSIVE Listings(_, _)
Listings(names, n) ==
  IF n = 0 THEN {{}}
  ELSE LET prev == Listings(names, n - 1)
       IN prev \cup
          {x[1] \cup {x[2]} :
             x \in {y \in prev \X [name : names, status : Statuses] :
                      \A e \in y[1] : e.name # y[2].name}}

DirStates(names, n) ==
  {NoDir} \cup {[exists |-> TRUE, entries |-> s] : s \in Listings(names, n)}

\* every content of the two directories with at most MaxFiles files
FileSystems ==
  {[d \in Dirs |-> IF d = SRC THEN x[1] ELSE x[2]] :
     x \in {y \in DirStates(Names, MaxFiles) \X DirStates(Names, MaxFiles) :
              Cardinality(y[1].entries) + Cardinality(y[2].entries) <= MaxFiles}}

\* src with at most one file, no lib
SmallFileSystems ==
  {[d \in Dirs |-> IF d = SRC THEN x ELSE NoDir] :
     x \in DirStates({CLI_PY, UTIL_PY, INIT_PY}, 1)}

\* the same with two names
OneFileSystems ==
  {[d \in Dirs |-> IF d = SRC THEN x ELSE NoDir] :
     x \in DirStates({UTIL_PY, INIT_PY}, 1)}

----------------------------------------------------------------------------
(* The contents of the files *)

IMPORT_LINE == <<"i", "m", "p", "o", "r", "t", " ", "o", "s">>
ASSIGN_LINE == <<"x", " ", "=", " ", "1">>
DOC_LINE == TRIPLE_DOUBLE \o <<"D", "o", "c">> \o TRIPLE_DOUBLE

PlainText == join(<<IMPORT_LINE, ASSIGN_LINE>>)
DocText == join(<<DOC_LINE, IMPORT_LINE>>)
BadText == <<"d", "e", "f", " ", "(">>

Quote == {"\"", "'"}

QuoteRuns == UNION {[1..k -> Quote] : k \in 0..MaxQuoteRun}

Delims == {<<>>, TRIPLE_DOUBLE, TRIPLE_SINGLE, <<"\"">> \o TRIPLE_DOUBLE}

BodyLens == {0, DESC_LIMIT - 1, DESC_LIMIT, DESC_LIMIT + 1}

Leads == {0, HEAD_LINES - 1, HEAD_LINES}

\* a line: quotes, a body of n letters, quotes, with or without blanks around each
Line(q1, sp, n, q2) ==
  LET pad == IF sp THEN <<" ">> ELSE <<>>
  IN pad \o q1 \o pad \o Rep("a", n) \o pad \o q2 \o pad

\* one-line texts over every arrangement of quote characters
QuoteTexts ==
  {Line(q1, sp, n, q2) : q1 \in QuoteRuns, q2 \in QuoteRuns, sp \in BOOLEAN, n \in {0, 1}}

\* texts whose marked line varies in length and in position
LongTexts ==
  {join(Rep(IMPORT_LINE, p) \o <<Line(q1, sp, n, q2)>> \o tail) :
     q1 \in Delims, q2 \in Delims, sp \in BOOLEAN, n \in BodyLens, p \in Leads,
     tail \in {<<>>, <<DOC_LINE>>}}

Texts == QuoteTexts \cup LongTexts

Identifiers == {"f", "g"}

Nodes == [kind : {"FunctionDef", "ClassDef"}, name : Identifiers, depth : 1..MaxNodes]

\* the depth of the last node of t
LastDepth(t) == IF t = <<>> THEN 0 ELSE t[Len(t)].depth

\* the node sequences of at most n nodes: a node is at most one level below
\* the node before it.  The program only copies names, so which of two names
\* comes first is immaterial: the first node is named "f"
RECURSIVE TreesUpTo(_)
TreesUpTo(n) ==
  IF n = 0 THEN {<<>>}
  ELSE LET prev == TreesUpTo(n - 1)
       IN prev \cup
          {Append(x[1], x[2]) :
             x \in {y \in prev \X Nodes :
                      /\ y[2].depth <= LastDepth(y[1]) + 1
                      /\ y[1] = <<>> => y[2].name = "f"}}

Trees == TreesUpTo(MaxNodes)

\* def f / class g: def f, def g
SampleTree ==
  <<[kind |-> "FunctionDef", name |-> "f", depth |-> 1],
    [kind |-> "ClassDef", name |-> "g", depth |-> 1],
    [kind |-> "FunctionDef", name |-> "f", depth |-> 2],
    [kind |-> "FunctionDef", name |-> "g", depth |-> 2]>>

\* what a readable, parsable file holds, by corpus: its text and its tree
Inputs ==
  [dir |-> [texts |-> {PlainText, DocText}, trees |-> {SampleTree}],
   text |-> [texts |-> Texts, trees |-> {<<>>}],
   ast |-> [texts |-> {PlainText}, trees |-> Trees]]

----------------------------------------------------------------------------
(* The program *)

\* where analyze_codebase returns to
ReturnTo(who) == IF who = "main" THEN "count" ELSE "returned"

\* a variant that raises for a missing directory
EnterRaises(dir, who, out) ==
  /\ caller' = who
  /\ src_dir' = dir
  /\ modules' = <<>>
  /\ stdout' = out
  /\ IF ~fs[dir].exists
     THEN pending' = {} /\ pc' = "failed"
     ELSE pending' = glob_py(dir) /\ pc' = "scan"
  /\ UNCHANGED <<fs, corpus, out_file, py_file, content, tree, diagram_content, idx, opened>>

\* analyze_codebase, up to the loop: the existence check and the glob
Enter(dir, who, out) ==
  /\ caller' = who
  /\ src_dir' = dir
  /\ modules' = <<>>
  /\ IF ~fs[dir].exists
     THEN /\ stdout' = Append(out, <<"warn_dir", dir>>)
          /\ pending' = {}
          /\ pc' = ReturnTo(who)
     ELSE /\ stdout' = out
          /\ pending' = glob_py(dir)
          /\ pc' = "scan"
  /\ UNCHANGED <<fs, corpus, out_file, py_file, content, tree, diagram_content, idx, opened>>

\* python generate_architecture.py: the banner, then analyze_codebase()
Start ==
  /\ pc = "idle"
  /\ Enter(SRC, "main", <<<<"banner">>>>)

\* analyze_codebase(dir) called as a function
Call(dir) ==
  /\ pc = "idle"
  /\ Enter(dir, "lib", <<>>)

\* one iteration: a name starting with "__" is passed over
Skip(name) ==
  /\ pc = "scan"
  /\ name \in pending
  /\ startswith(name, DUNDER)
  /\ pending' = pending \ {name}
  /\ py_file' = name
  /\ UNCHANGED <<fs, corpus, out_file, pc, caller, src_dir, content, tree, modules,
                 diagram_content, idx, opened, stdout>>

\* one iteration: the file is read, parsed and described
Analyze(name) ==
  /\ pc = "scan"
  /\ name \in pending
  /\ ~startswith(name, DUNDER)
  /\ Entry(src_dir, name).status = "ok"
  /\ pending' = pending \ {name}
  /\ py_file' = name
  /\ opened' = Append(opened, joinpath(src_dir, name))
  /\ \E text \in Inputs[corpus].texts :
       LET description == get_module_description(text, stem(name))
       IN \E nodes \in Inputs[corpus].trees :
            /\ content' = text
            /\ tree' = nodes
            /\ modules' = dict_set(modules, stem(name), ModuleInfo(name, description, nodes))
  /\ UNCHANGED <<fs, corpus, out_file, pc, caller, src_dir, diagram_content, idx, stdout>>

\* a variant without the except clause: the exception ends the process
WarnAborts(name) ==
  /\ pc = "scan"
  /\ name \in pending
  /\ ~startswith(name, DUNDER)
  /\ Entry(src_dir, name).status # "ok"
  /\ pending' = pending \ {name}
  /\ py_file' = name
  /\ opened' = Append(opened, joinpath(src_dir, name))
  /\ pc' = "failed"
  /\ UNCHANGED <<fs, corpus, out_file, caller, src_dir, content, tree, modules,
                 diagram_content, idx, stdout>>

\* one iteration: open, read or ast.parse raises; the except clause prints
Warn(name) ==
  /\ pc = "scan"
  /\ name \in pending
  /\ ~startswith(name, DUNDER)
  /\ Entry(src_dir, name).status # "ok"
  /\ pending' = pending \ {name}
  /\ py_file' = name
  /\ opened' = Append(opened, joinpath(src_dir, name))
  /\ content' = IF Entry(src_dir, name).status = "syntax" THEN BadText ELSE content
  /\ stdout' = Append(stdout, <<"warn_file", joinpath(src_dir, name), Entry(src_dir, name).status>>)
  /\ UNCHANGED <<fs, corpus, out_file, pc, caller, src_dir, tree, modules,
                 diagram_content, idx>>

\* the loop is over: return modules
Return ==
  /\ pc = "scan"
  /\ pending = {}
  /\ pc' = ReturnTo(caller)
  /\ py_file' = <<>>
  /\ content' = <<>>
  /\ tree' = <<>>
  /\ UNCHANGED <<fs, corpus, out_file, caller, src_dir, pending, modules,
                 diagram_content, idx, opened, stdout>>

\* print(f"Found {len(modules)} modules")
PrintCount ==
  /\ pc = "count"
  /\ stdout' = Append(stdout, <<"count", Len(modules)>>)
  /\ pc' = "generate"
  /\ UNCHANGED <<fs, corpus, out_file, caller, src_dir, pending, py_file, content, tree,
                 modules, diagram_content, idx, opened>>

\* diagram_content = generate_mermaid_diagram(modules)
Generate ==
  /\ pc = "generate"
  /\ diagram_content' = generate_mermaid_diagram(modules)
  /\ pc' = "write"
  /\ UNCHANGED <<fs, corpus, out_file, caller, src_dir, pending, py_file, content, tree,
                 modules, idx, opened, stdout>>

\* open(output_file, 'w') and f.write succeed; the two prints that follow
WriteOk ==
  /\ pc = "write"
  /\ out_file' = [exists |-> TRUE, data |-> diagram_content]
  /\ stdout' = stdout \o <<<<"updated">>, <<"header">>>>
  /\ idx' = 0
  /\ pc' = "summary"
  /\ UNCHANGED <<fs, corpus, caller, src_dir, pending, py_file, content, tree, modules,
                 diagram_content, opened>>

\* a variant that swallows the error of open and carries on
WriteErrorIgnored ==
  /\ pc = "write"
  /\ stdout' = stdout \o <<<<"updated">>, <<"header">>>>
  /\ idx' = 0
  /\ pc' = "summary"
  /\ UNCHANGED <<fs, corpus, out_file, caller, src_dir, pending, py_file, content, tree,
                 modules, diagram_content, opened>>

\* open(output_file, 'w') raises: the file is as it was
WriteOpenFails ==
  /\ pc = "write"
  /\ pc' = "failed"
  /\ UNCHANGED <<fs, corpus, out_file, caller, src_dir, pending, py_file, content, tree,
                 modules, diagram_content, idx, opened, stdout>>

\* the file is opened (truncated) and the write raises part of the way: nothing,
\* or all but the last line, has reached the file
WriteFails ==
  /\ pc = "write"
  /\ \E k \in {0, Len(diagram_content) - 1} :
       out_file' = [exists |-> TRUE, data |-> Take(diagram_content, k)]
  /\ pc' = "failed"
  /\ UNCHANGED <<fs, corpus, caller, src_dir, pending, py_file, content, tree, modules,
                 diagram_content, idx, opened, stdout>>

\* for name, info in modules.items(): print one line
SummaryLine ==
  /\ pc = "summary"
  /\ idx < Len(modules)
  /\ stdout' = Append(stdout, <<"module", modules[idx + 1].name, modules[idx + 1].description>>)
  /\ idx' = idx + 1
  /\ UNCHANGED <<fs, corpus, out_file, pc, caller, src_dir, pending, py_file, content, tree,
                 modules, diagram_content, opened>>

\* the summary loop is over: update_architecture_diagram returns
Finish ==
  /\ pc = "summary"
  /\ idx = Len(modules)
  /\ pc' = "done"
  /\ UNCHANGED <<fs, corpus, out_file, caller, src_dir, pending, py_file, content, tree,
                 modules, diagram_content, idx, opened, stdout>>

\* the process ends; only the file system outlives it
Exit ==
  /\ pc \in {"done", "failed", "returned"}
  /\ pc' = "idle"
  /\ caller' = "none"
  /\ src_dir' = <<>>
  /\ pending' = {}
  /\ modules' = <<>>
  /\ diagram_content' = <<>>
  /\ idx' = 0
  /\ opened' = <<>>
  /\ stdout' = <<>>
  /\ UNCHANGED <<fs, corpus, out_file, py_file, content, tree>>

\* the state before the program has run
Boot ==
  /\ out_file = [exists |-> FALSE, data |-> <<>>]
  /\ pc = "idle"
  /\ caller = "none"
  /\ src_dir = <<>>
  /\ pending = {}
  /\ py_file = <<>>
  /\ content = <<>>
  /\ tree = <<>>
  /\ modules = <<>>
  /\ diagram_content = <<>>
  /\ idx = 0
  /\ opened = <<>>
  /\ stdout = <<>>

Init == corpus = "dir" /\ fs \in FileSystems /\ Boot

InitText == corpus = "text" /\ fs \in SmallFileSystems /\ Boot

InitAst == corpus = "ast" /\ fs \in OneFileSystems /\ Boot

Next ==
  \/ Start
  \/ \E dir \in Dirs : Call(dir)
  \/ \E name \in Names : Skip(name)
  \/ \E name \in Names : Analyze(name)
  \/ \E name \in Names : Warn(name)
  \/ Return
  \/ PrintCount
  \/ Generate
  \/ WriteOk
  \/ WriteOpenFails
  \/ WriteFails
  \/ SummaryLine
  \/ Finish
  \/ Exit

Spec == Init /\ [][Next]_vars

SpecText == InitText /\ [][Next]_vars

SpecAst == InitAst /\ [][Next]_vars

----------------------------------------------------------------------------
(* What the claims speak of *)

\* the *.py entries of a directory
PyEntries(dir) == {e \in fs[dir].entries : endswith(e.name, PY_SUFFIX)}

\* those of them the loop passes over
Excluded(dir) == {e \in PyEntries(dir) : startswith(e.name, DUNDER)}

\* the number of printed lines of one kind
Printed(kind) == Cardinality({i \in 1..Len(stdout) : stdout[i][1] = kind})

\* the keys of a mapping
Keys(d) == {d[i].name : i \in 1..Len(d)}

\* analyze_codebase has returned to its caller
Returned == caller # "none" /\ pc \notin {"idle", "scan"}

\* the last iteration of the loop stored an entry: content and tree are its file's
JustAnalyzed == pc = "scan" /\ py_file # <<>> /\ HasKey(modules, stem(py_file))

\* the entry of the file just analyzed
Current == dict_get(modules, stem(py_file))

\* a line holds a triple-quote marker
HasMarker(line) == Contains(line, TRIPLE_DOUBLE) \/ Contains(line, TRIPLE_SINGLE)

\* line i of the text is one of its first five and holds a marker
MarkedAt(text, i) ==
  i \in 1..Min(HEAD_LINES, Len(split(text))) /\ HasMarker(split(text)[i])

Marked(text) == \E i \in 1..HEAD_LINES : MarkedAt(text, i)

\* the first such line
FirstMarked(text) ==
  CHOOSE i \in 1..HEAD_LINES :
    MarkedAt(text, i) /\ \A j \in 1..(i - 1) : ~MarkedAt(text, j)

\* the marked line without its markers and surrounding whitespace
Unquoted(text) ==
  strip(remove(remove(split(text)[FirstMarked(text)], TRIPLE_DOUBLE), TRIPLE_SINGLE))

\* d is t, cut to 40 characters and the ellipsis when longer
CutTo40(d, t) ==
  /\ Len(t) <= DESC_LIMIT => d = t
  /\ Len(t) > DESC_LIMIT =>
       /\ Len(d) = DESC_LIMIT + 3
       /\ \A i \in 1..DESC_LIMIT : d[i] = t[i]
       /\ \A i \in 1..3 : d[DESC_LIMIT + i] = "."

\* the nodes of one kind
NodesOfKind(nodes, kind) == {i \in 1..Len(nodes) : nodes[i].kind = kind}

\* node i comes before node j in breadth-first order: higher up, or as high and earlier
Before(nodes, i, j) ==
  \/ nodes[i].depth < nodes[j].depth
  \/ nodes[i].depth = nodes[j].depth /\ i < j

\* the k-th node of a kind in breadth-first order
Kth(nodes, kind, k) ==
  CHOOSE i \in NodesOfKind(nodes, kind) :
    Cardinality({j \in NodesOfKind(nodes, kind) : Before(nodes, j, i)}) = k - 1

\* names is the names of the first (at most limit) nodes of a kind, breadth first
FirstNames(names, nodes, kind, limit) ==
  /\ Len(names) = Min(limit, Cardinality(NodesOfKind(nodes, kind)))
  /\ \A k \in 1..Len(names) : names[k] = nodes[Kth(nodes, kind, k)].name

----------------------------------------------------------------------------
(* C1: a file that fails to read or parse never aborts analyze_codebase: it is
   left out, the others are processed, and the mapping returned for a directory
   has as many entries as the directory has .py files, less those that failed and
   less those named "__...", keyed
   by the stems of the files that are not passed over and were parsed. *)
C1_FailingFilesSkipped ==
  /\ pc = "failed" => Printed("count") = 1
  /\ (Returned /\ fs[src_dir].exists) =>
       /\ Len(modules) = Cardinality(PyEntries(src_dir)) - Printed("warn_file")
                           - Cardinality(Excluded(src_dir))
       /\ Keys(modules) =
            {stem(e.name) : e \in {x \in PyEntries(src_dir) \ Excluded(src_dir) :
                                     x.status = "ok"}}
       /\ Printed("warn_file") =
            Cardinality({x \in PyEntries(src_dir) \ Excluded(src_dir) : x.status # "ok"})

C1_Witness ==
  /\ Returned
  /\ fs[src_dir].exists
  /\ Printed("warn_file") = 1
  /\ Len(modules) = 1

(* C2: for a directory that does not exist analyze_codebase returns an empty
   mapping without raising, and no file is opened. *)
C2_MissingDirectory ==
  (caller # "none" /\ ~fs[src_dir].exists) =>
    /\ modules = <<>>
    /\ opened = <<>>
    /\ pc # "scan"
    /\ caller = "lib" => pc = "returned"
    /\ pc = "failed" => Printed("count") = 1

C2_Witness ==
  /\ caller = "lib"
  /\ pc = "returned"
  /\ ~fs[src_dir].exists
  /\ \E d \in Dirs : fs[d].entries # {}

(* C3, as stated: when one of the first five lines holds a triple-quote marker,
   the description is the first such line with the quote markers and the
   surrounding whitespace removed, cut to 40 characters and "..." when longer. *)
C3_MarkersRemoved ==
  (JustAnalyzed /\ Marked(content)) =>
    /\ CutTo40(Current.description, Unquoted(content))
    /\ ~HasMarker(Current.description)

(* C3, amended: the description is the first such line after every """ is
   deleted, then every ''', then the surrounding whitespace, cut to 40 characters
   and "..." when longer; it holds no ''', but deleting a ''' can leave a """.
   Neither the module name nor the lines after the fifth enter it. *)
C3_MarkersRemovedInTurn ==
  (JustAnalyzed /\ Marked(content)) =>
    /\ CutTo40(Current.description, Unquoted(content))
    /\ ~Contains(Current.description, TRIPLE_SINGLE)

C3_Witness ==
  /\ JustAnalyzed
  /\ Marked(content)
  /\ FirstMarked(content) = HEAD_LINES
  /\ Len(Current.description) = DESC_LIMIT + 3
  /\ Len(split(content)) > HEAD_LINES

(* C4: when none of the first five lines holds a marker, the description is the
   fallback table's value for a module name that is a key of the table, and
   "<module_name> module" only for a name that is not. *)
C4_Fallback ==
  (JustAnalyzed /\ ~Marked(content)) =>
    /\ \A i \in 1..Len(descriptions) :
         descriptions[i][1] = Current.name => Current.description = descriptions[i][2]
    /\ (\A i \in 1..Len(descriptions) : descriptions[i][1] # Current.name) =>
         Current.description = Current.name \o MODULE_SUFFIX
    /\ Current.description = Current.name \o MODULE_SUFFIX =>
         \A i \in 1..Len(descriptions) : descriptions[i][1] # Current.name

C4_Witness ==
  /\ JustAnalyzed
  /\ ~Marked(content)
  /\ Len(split(content)) > HEAD_LINES
  /\ HasMarker(split(content)[HEAD_LINES + 1])
  /\ Current.name = descriptions[1][1]
  /\ Current.description = descriptions[1][2]

(* C5: whatever the mapping, the diagram is the one constant text, and a run
   that completes leaves exactly that text in architecture_diagram.md,
   whatever the file held before. *)
C5_SameDiagram ==
  /\ pc \in {"write", "summary", "done"} =>
       diagram_content = generate_mermaid_diagram(<<>>)
  /\ pc \in {"summary", "done"} =>
       out_file = [exists |-> TRUE, data |-> generate_mermaid_diagram(<<>>)]

C5_Witness ==
  /\ pc = "done"
  /\ Len(modules) = MaxFiles
  /\ Printed("warn_dir") = 0

(* C6: a run scans, prints the count, generates the diagram, writes the file
   and prints the summary, in that order; it prints one summary line per entry
   of the mapping, as many as the count it printed; and when the write fails
   the run ends in failure with no summary line printed. *)
C6_Order ==
  caller = "main" =>
    /\ pc = "scan" => Printed("count") = 0
    /\ pc \in {"scan", "count"} => diagram_content = <<>>
    /\ Printed("count") = 1 <=> pc \in {"generate", "write", "summary", "done", "failed"}
    /\ \A i \in 1..Len(stdout) : stdout[i][1] = "count" => stdout[i][2] = Len(modules)
    /\ diagram_content # <<>> <=> pc \in {"write", "summary", "done", "failed"}
    /\ Printed("updated") = 1 <=> pc \in {"summary", "done"}
    /\ Printed("updated") = 1 => out_file = [exists |-> TRUE, data |-> diagram_content]
    /\ pc \notin {"summary", "done"} => Printed("module") = 0
    /\ pc = "summary" => Printed("module") = idx
    /\ pc = "done" => Printed("module") = Len(modules)
    /\ \A i \in 1..Len(stdout) :
         stdout[i][1] = "module" =>
           \E k \in 1..Len(modules) :
             /\ stdout[i] = <<"module", modules[k].name, modules[k].description>>
             /\ i = Len(stdout) - Printed("module") + k
             /\ \E j \in 1..(i - 1) : stdout[j][1] = "updated"

C6_Witness ==
  /\ caller = "main"
  /\ pc = "done"
  /\ Printed("module") = MaxFiles

(* C7: every description in the mapping is at most 40 characters long, or 40
   characters and the ellipsis, whether it came from a line or from the
   fallback. *)
C7_DescriptionBounded ==
  \A i \in 1..Len(modules) :
    \/ Len(modules[i].description) <= DESC_LIMIT
    \/ /\ Len(modules[i].description) = DESC_LIMIT + 3
       /\ Drop(modules[i].description, DESC_LIMIT) = ELLIPSIS

(* C8, as stated: the functions field is up to 3 names of top-level functions;
   no name of a function nested in a class or in a function is in it. *)
C8_TopLevelOnly ==
  JustAnalyzed =>
    /\ Len(Current.functions) <= FUNC_LIMIT
    /\ \A k \in 1..Len(Current.functions) :
         \E i \in NodesOfKind(tree, "FunctionDef") :
           tree[i].depth = 1 /\ tree[i].name = Current.functions[k]

(* C8, amended: the functions field is the names of the first 3 (or fewer)
   function definitions found anywhere in the tree, breadth first: those
   nested in a class or in a function count as well. *)
C8_AnyDepth ==
  JustAnalyzed => FirstNames(Current.functions, tree, "FunctionDef", FUNC_LIMIT)

C8_Witness ==
  /\ JustAnalyzed
  /\ \E k \in 1..Len(Current.functions) :
       \A i \in NodesOfKind(tree, "FunctionDef") :
         tree[i].name = Current.functions[k] => tree[i].depth > 1

(* C9: the file field of every entry is the path of the file that was read,
   the directory scanned joined with the file's name, whatever the directory. *)
C9_FilePath ==
  \A i \in 1..Len(modules) :
    \E j \in 1..Len(opened) :
      /\ opened[j] = modules[i].file
      /\ \E e \in PyEntries(src_dir) :
           stem(e.name) = modules[i].name /\ opened[j] = joinpath(src_dir, e.name)

(* C10: functions is the first min(3, n) names of the n function definitions in
   traversal order and classes the first min(2, m) names of the m class
   definitions: cut short, with duplicates kept and the order left as it is. *)
C10_Truncated ==
  JustAnalyzed =>
    LET found == NamesOfKind(tree, "FunctionDef")
        foundClasses == NamesOfKind(tree, "ClassDef")
        entry == Current
    IN /\ Len(found) = Cardinality(NodesOfKind(tree, "FunctionDef"))
       /\ Len(foundClasses) = Cardinality(NodesOfKind(tree, "ClassDef"))
       /\ Len(entry.functions) = Min(FUNC_LIMIT, Len(found))
       /\ Len(entry.classes) = Min(CLASS_LIMIT, Len(foundClasses))
       /\ \A k \in 1..Len(entry.functions) : entry.functions[k] = found[k]
       /\ \A k \in 1..Len(entry.classes) : entry.classes[k] = foundClasses[k]
       /\ Len(entry.functions) <= FUNC_LIMIT
       /\ Len(entry.classes) <= CLASS_LIMIT

C10_Witness ==
  /\ JustAnalyzed
  /\ Cardinality(NodesOfKind(tree, "FunctionDef")) > FUNC_LIMIT
  /\ Current.functions = <<"f", "g", "f">>

============================================================================
